---- MODULE Spec2Model ----
(***************************************************************************)
(* kubectl cordon / uncordon / drain (pkg/kubectl/cmd/drain.go).           *)
(*                                                                         *)
(* One DrainOptions object (o) talks to a remote control plane that holds  *)
(* the node, the pods placed on it and the controllers that own them.      *)
(* Every remote call (Replace, List, Get, Delete) is one step, so that     *)
(* other actors of the control plane can act between two calls.            *)
(* Strings that the code builds (pod names, the joined name list) are      *)
(* sequences of characters.                                                *)
(***************************************************************************)
EXTENDS Integers, Sequences, FiniteSets, TLC

VARIABLES
    remoteUnschedulable, \* Spec.Unschedulable of the node stored in the control plane
    remotePods,          \* pods of the control plane placed on the node, in listing order
    controllers,         \* controllers that exist in the control plane: <<kind, name>>
    nodeInfo,            \* o.nodeInfo: Mapping kind and resource, Name, Object's flag
    Force,               \* o.Force
    GracePeriodSeconds,  \* o.GracePeriodSeconds
    cmd,                 \* entry point of the current (or last) invocation
    pc,                  \* position of the invocation
    podList,             \* getPodsForDeletion: podList.Items
    idx,                 \* getPodsForDeletion: position of its loop in podList.Items
    didx,                \* deletePods: position of its loop in pods
    pods,                \* getPodsForDeletion: pods; deletePods: its argument
    unreplicatedPodNames,\* getPodsForDeletion: unreplicatedPodNames
    deleteOptions,       \* deletePods: deleteOptions.GracePeriodSeconds, <<>> for nil
    err,                 \* error returned by the invocation
    out,                 \* what the invocation wrote to o.out
    calls,               \* remote calls issued by the invocation, in order
    last                 \* the latest RunCordonOrUncordon call: what it was asked and did

vars == <<remoteUnschedulable, remotePods, controllers, nodeInfo, Force,
          GracePeriodSeconds, cmd, pc, podList, idx, didx, pods, unreplicatedPodNames,
          deleteOptions, err, out, calls, last>>

----------------------------------------------------------------------------
(* Bounds and input sets *)

MaxPods == 2

GracePeriods == {-1, 0, 1}

Digits == <<"1", "2", "3", "4", "5", "6", "7", "8", "9">>

PodName(i) == <<"p", Digits[i]>>

NodeName == <<"f", "o", "o">>

ConfigMirrorAnnotationKey == "kubernetes.io/config.mirror"

CreatedByAnnotation == "kubernetes.io/created-by"

\* A well-formed serialized reference, and a payload that does not decode.
SerializedReference(kind, name) == <<"ref", kind, name>>

Garbage == <<"garbage">>

OwnerNameOf(kind) ==
    CASE kind = "ReplicationController" -> <<"r", "c", "1">>
      [] kind = "DaemonSet" -> <<"d", "s", "1">>
      [] kind = "Job" -> <<"j", "1">>
      [] OTHER -> <<"x", "1">>

RefKinds == {"ReplicationController", "DaemonSet", "Job", "Deployment"}

ControllerKinds == {"ReplicationController", "DaemonSet", "Job"}

Controllers == {<<k, OwnerNameOf(k)>> : k \in ControllerKinds}

\* Annotations of a pod: a function from the keys present to their values.
CreatedByValues == {Garbage} \cup {SerializedReference(k, OwnerNameOf(k)) : k \in RefKinds}

NoAnnotations == [a \in {} |-> "true"]

PlainAnnotations ==
    {NoAnnotations} \cup {[a \in {CreatedByAnnotation} |-> v] : v \in CreatedByValues}

MirrorAnnotations ==
    {[a \in {ConfigMirrorAnnotationKey} |-> "true"]}
    \cup {[a \in {ConfigMirrorAnnotationKey, CreatedByAnnotation} |->
              IF a = ConfigMirrorAnnotationKey THEN "true" ELSE v] :
          v \in {Garbage, SerializedReference("ReplicationController",
                                              OwnerNameOf("ReplicationController"))}}

AnnotationSets == PlainAnnotations \cup MirrorAnnotations

PodLists ==
    UNION {[1..n -> AnnotationSets] : n \in 0..MaxPods}

MakePods(as) == [i \in 1..Len(as) |-> [Name |-> PodName(i), Annotations |-> as[i]]]

----------------------------------------------------------------------------
(* Values *)

NoError == [type |-> "nil", text |-> <<>>]

Error(type, text) == [type |-> type, text |-> text]

NoCall ==
    [desired |-> FALSE, was |-> FALSE, wrote |-> FALSE, failed |-> FALSE, valid |-> FALSE]

\* One remote call: the operation, the kind and name it addresses, the pod it is
\* issued for, the flag (what a Replace writes; for a Get, whether the
\* controller existed in the control plane when the call was made), the grace
\* period a Delete carries (<<>> for none), and whether it succeeded.
Call(op, kind, name, pod, flag, grace, ok) ==
    [op |-> op, kind |-> kind, name |-> name, pod |-> pod, flag |-> flag,
     grace |-> grace, ok |-> ok]

\* cmdutil.PrintSuccess(mapper, false, out, resource, name, operation)
PrintSuccess(resource, name, operation) ==
    [resource |-> resource, name |-> name, operation |-> operation]

Warning(joined) ==
    [resource |-> "WARNING", name |-> joined, operation |-> "About to delete"]

----------------------------------------------------------------------------
(* Pure functions of drain.go *)

already(desired) == IF desired THEN "already cordoned" ELSE "already uncordoned"

changed(desired) == IF desired THEN "cordoned" ELSE "uncordoned"

\* Faulty variant of Join: the separator without its blank.
RECURSIVE JoinComma(_)
JoinComma(names) ==
    IF Len(names) = 0 THEN <<>>
    ELSE IF Len(names) = 1 THEN names[1]
    ELSE names[1] \o <<",">> \o JoinComma(Tail(names))

\* strings.Join(names, ", ")
RECURSIVE Join(_)
Join(names) ==
    IF Len(names) = 0 THEN <<>>
    ELSE IF Len(names) = 1 THEN names[1]
    ELSE names[1] \o <<",", " ">> \o Join(Tail(names))

\* runtime.DecodeInto(decoder, []byte(creatorRef), &sr)
DecodeInto(creatorRef) ==
    IF Len(creatorRef) = 3 /\ creatorRef[1] = "ref"
    THEN [err |-> FALSE, Kind |-> creatorRef[2], Name |-> creatorRef[3]]
    ELSE [err |-> TRUE, Kind |-> "", Name |-> <<>>]

\* Faulty variant of IsMirrorPod: only a mirror pod without a creator is skipped.
IsMirrorPodUnowned(pod) ==
    /\ ConfigMirrorAnnotationKey \in DOMAIN pod.Annotations
    /\ CreatedByAnnotation \notin DOMAIN pod.Annotations

\* _, found := pod.ObjectMeta.Annotations[types.ConfigMirrorAnnotationKey]
IsMirrorPod(pod) == ConfigMirrorAnnotationKey \in DOMAIN pod.Annotations

\* creatorRef, found := pod.ObjectMeta.Annotations[controller.CreatedByAnnotation]
HasCreatorRef(pod) == CreatedByAnnotation \in DOMAIN pod.Annotations

\* The kinds whose existence getPodsForDeletion verifies.
IsRecognizedKind(kind) == kind \in {"ReplicationController", "DaemonSet", "Job"}

\* Faulty variant of LookupSucceeded: the error of the Get is not looked at.
LookupSucceededAlways(res) == TRUE

\* Faulty variant of LookupSucceeded: the test of err inverted.
LookupSucceededInverted(res) == res.err # "nil" /\ res.obj # "nil"

\* err == nil && rc != nil
LookupSucceeded(res) == res.err = "nil" /\ res.obj # "nil"

\* Faulty variant of AppendsToPods: o.Force is not consulted.
AppendsToPodsReplicatedOnly(replicated, force) == replicated

\* if replicated || o.Force { pods = append(pods, pod) }
AppendsToPods(replicated, force) == replicated \/ force

\* if !replicated { unreplicatedPodNames = append(unreplicatedPodNames, pod.Name) }
AppendsToUnreplicated(replicated) == ~replicated

\* Faulty variant of DeleteOptionsFor: a grace period of zero is not passed on.
DeleteOptionsForPositive(gracePeriodSeconds) ==
    IF gracePeriodSeconds > 0 THEN <<gracePeriodSeconds>> ELSE <<>>

\* if o.GracePeriodSeconds >= 0 { deleteOptions.GracePeriodSeconds = &gracePeriodSeconds }
DeleteOptionsFor(gracePeriodSeconds) ==
    IF gracePeriodSeconds >= 0 THEN <<gracePeriodSeconds>> ELSE <<>>

RefusingPrefix ==
    "refusing to continue due to pods managed by neither a ReplicationController, nor a Job, nor a DaemonSet: "

RefusingSuffix == " (use --force to override)"

\* fmt.Errorf("refusing to continue due to ...: %s (use --force to override)", joined)
RefusingError(joined) ==
    Error("unmanaged", <<RefusingPrefix>> \o joined \o <<RefusingSuffix>>)

----------------------------------------------------------------------------
(* The control plane *)

\* What client.<Kind>(ns).Get(name) can answer: the object when it exists,
\* not-found when it does not, and a failure of the call in both cases.
GetResults(kind, name) ==
    (IF <<kind, name>> \in controllers
     THEN {[err |-> "nil", obj |-> "object"]}
     ELSE {[err |-> "notfound", obj |-> "empty"]})
    \cup {[err |-> "unavailable", obj |-> "empty"]}

\* Controllers that a pod on the node names as its creator: the only ones
\* whose existence an invocation can observe.
ReferencedBy(ps) ==
    {c \in Controllers :
        \E i \in 1..Len(ps) :
            /\ HasCreatorRef(ps[i])
            /\ LET sr == DecodeInto(ps[i].Annotations[CreatedByAnnotation])
               IN ~sr.err /\ c = <<sr.Kind, sr.Name>>}

\* Whether the controller that the pod names as its creator exists right now.
OwnerExists(pod) ==
    /\ HasCreatorRef(pod)
    /\ LET sr == DecodeInto(pod.Annotations[CreatedByAnnotation])
       IN ~sr.err /\ <<sr.Kind, sr.Name>> \in controllers

RemoveAt(s, i) == [j \in 1..(Len(s) - 1) |-> IF j < i THEN s[j] ELSE s[j + 1]]

RemovePod(ps, name) ==
    IF \E i \in 1..Len(ps) : ps[i].Name = name
    THEN RemoveAt(ps, CHOOSE i \in 1..Len(ps) : ps[i].Name = name)
    ELSE ps

----------------------------------------------------------------------------
(* RunCordonOrUncordon *)

\* SetupDrain: o.nodeInfo is the node as the control plane holds it now.
SetupDrain(info) == [info EXCEPT !.Unschedulable = remoteUnschedulable]

\* Faulty variant of ToggleOutcome: the flag is written without being compared.
ToggleOutcomeAlwaysWrites(info, desired, replaceOK) ==
    IF info.Kind = "Node"
    THEN IF replaceOK THEN "changed" ELSE "failed"
    ELSE "skipped"

\* Faulty variant of ToggleOutcome: the kind of the object is not looked at.
ToggleOutcomeAnyKind(info, desired, replaceOK) ==
    IF info.Unschedulable = desired
    THEN "already"
    ELSE IF replaceOK THEN "changed" ELSE "failed"

\* What one call does: "skipped" for a handle that is no Node, "already" when
\* the flag has the desired value, else a Replace that succeeds or fails.
ToggleOutcome(info, desired, replaceOK) ==
    IF info.Kind = "Node"
    THEN IF info.Unschedulable = desired
         THEN "already"
         ELSE IF replaceOK THEN "changed" ELSE "failed"
    ELSE "skipped"

\* Faulty variant of ObjectAfterToggle: the flag is put back when the Replace
\* fails.
ObjectAfterToggleRestores(info, desired, outcome) ==
    IF outcome = "changed"
    THEN [info EXCEPT !.Unschedulable = desired]
    ELSE info

\* Faulty variant of ObjectAfterToggle: unsched.SetBool(desired) is missing.
ObjectAfterToggleUnset(info, desired, outcome) == info

\* unsched.SetBool(desired) precedes helper.Replace and is never undone.
ObjectAfterToggle(info, desired, outcome) ==
    IF outcome \in {"changed", "failed"}
    THEN [info EXCEPT !.Unschedulable = desired]
    ELSE info

\* helper.Replace(cmdNamespace, o.nodeInfo.Name, true, o.nodeInfo.Object)
ToggleCalls(info, outcome) ==
    IF outcome \in {"changed", "failed"}
    THEN <<Call("Replace", info.Kind, info.Name, <<>>, info.Unschedulable, <<>>,
                outcome = "changed")>>
    ELSE <<>>

ToggleOutput(info, desired, outcome) ==
    CASE outcome = "already" -> <<PrintSuccess(info.Resource, info.Name, already(desired))>>
      [] outcome = "changed" -> <<PrintSuccess(info.Resource, info.Name, changed(desired))>>
      [] outcome = "skipped" -> <<PrintSuccess(info.Resource, info.Name, "skipped")>>
      [] OTHER -> <<>>

\* One call of RunCordonOrUncordon(desired) on the handle info; it is the first
\* thing every entry point does, so calls, out and err start from empty.
RunCordonOrUncordon(info, desired, replaceOK) ==
    LET outcome == ToggleOutcome(info, desired, replaceOK)
    IN /\ nodeInfo' = ObjectAfterToggle(info, desired, outcome)
       /\ calls' = ToggleCalls(nodeInfo', outcome)
       /\ remoteUnschedulable' =
              IF outcome = "changed" THEN nodeInfo'.Unschedulable ELSE remoteUnschedulable
       /\ out' = ToggleOutput(info, desired, outcome)
       /\ err' = IF outcome = "failed" THEN Error("replace", <<>>) ELSE NoError
       /\ last' = [desired |-> desired, was |-> info.Unschedulable,
                   wrote |-> outcome \in {"changed", "failed"},
                   failed |-> outcome = "failed", valid |-> TRUE]

\* The results helper.Replace can have in one call: there is one to choose only
\* when the call is made, for a Node whose flag differs from the desired value.
ReplaceResults(info, desired) ==
    IF info.Kind = "Node" /\ info.Unschedulable # desired THEN BOOLEAN ELSE {TRUE}

\* The locals of getPodsForDeletion and deletePods before they run.
ResetLocals ==
    /\ podList' = <<>>
    /\ idx' = 0
    /\ didx' = 0
    /\ pods' = <<>>
    /\ unreplicatedPodNames' = <<>>
    /\ deleteOptions' = <<>>

----------------------------------------------------------------------------
(* Initial state: no command has run *)

Init ==
    /\ \E kind \in {"Node", "Pod"} :
         \E unsched \in BOOLEAN :
            /\ kind = "Pod" => unsched = FALSE
            /\ remoteUnschedulable = unsched
            /\ nodeInfo = [Kind |-> kind,
                           Resource |-> IF kind = "Node" THEN "node" ELSE "pod",
                           Name |-> NodeName,
                           Unschedulable |-> unsched]
    /\ \E as \in PodLists : remotePods = MakePods(as)
    /\ controllers \in SUBSET ReferencedBy(remotePods)
    /\ Force = FALSE
    /\ GracePeriodSeconds = -1
    /\ cmd = "none"
    /\ pc = "idle"
    /\ podList = <<>>
    /\ idx = 0
    /\ didx = 0
    /\ pods = <<>>
    /\ unreplicatedPodNames = <<>>
    /\ deleteOptions = <<>>
    /\ err = NoError
    /\ out = <<>>
    /\ calls = <<>>
    /\ last = NoCall

----------------------------------------------------------------------------
(* Entry points *)

\* Faulty variant of NewCmdCordon: the command goes on as RunDrain does after
\* its call of RunCordonOrUncordon.
NewCmdCordonThenDrains ==
    /\ pc = "idle"
    /\ cmd' = "cordon"
    /\ \E replaceOK \in ReplaceResults(SetupDrain(nodeInfo), TRUE) :
         RunCordonOrUncordon(SetupDrain(nodeInfo), TRUE, replaceOK)
    /\ ResetLocals
    /\ pc' = IF err' # NoError THEN "idle" ELSE "list"
    /\ UNCHANGED <<remotePods, controllers, Force, GracePeriodSeconds>>

\* kubectl cordon NODE: SetupDrain, then RunCordonOrUncordon(true)
NewCmdCordon ==
    /\ pc = "idle"
    /\ cmd' = "cordon"
    /\ \E replaceOK \in ReplaceResults(SetupDrain(nodeInfo), TRUE) :
         RunCordonOrUncordon(SetupDrain(nodeInfo), TRUE, replaceOK)
    /\ ResetLocals
    /\ UNCHANGED <<pc, remotePods, controllers, Force, GracePeriodSeconds>>

\* kubectl uncordon NODE: SetupDrain, then RunCordonOrUncordon(false)
NewCmdUncordon ==
    /\ pc = "idle"
    /\ cmd' = "uncordon"
    /\ \E replaceOK \in ReplaceResults(SetupDrain(nodeInfo), FALSE) :
         RunCordonOrUncordon(SetupDrain(nodeInfo), FALSE, replaceOK)
    /\ ResetLocals
    /\ UNCHANGED <<pc, remotePods, controllers, Force, GracePeriodSeconds>>

\* Faulty variant of DrainDesired: RunDrain asks for the wrong value.
DrainDesiredFalse == FALSE

\* The value RunDrain passes to RunCordonOrUncordon.
DrainDesired == TRUE

\* Faulty variant of AfterCordon: the error of RunCordonOrUncordon is dropped.
AfterCordonIgnoresError(e) == "list"

\* if err := o.RunCordonOrUncordon(true); err != nil { return err }
AfterCordon(e) == IF e # NoError THEN "idle" ELSE "list"

\* kubectl drain NODE [--force] [--grace-period=N]: SetupDrain, then RunDrain
\* up to its first return or its call of getPodsForDeletion.
NewCmdDrain ==
    /\ pc = "idle"
    /\ cmd' = "drain"
    /\ \E force \in BOOLEAN : Force' = force
    /\ \E grace \in GracePeriods : GracePeriodSeconds' = grace
    /\ \E replaceOK \in ReplaceResults(SetupDrain(nodeInfo), DrainDesired) :
         RunCordonOrUncordon(SetupDrain(nodeInfo), DrainDesired, replaceOK)
    /\ ResetLocals
    /\ pc' = AfterCordon(err')
    /\ UNCHANGED <<remotePods, controllers>>

\* RunCordonOrUncordon called once more on the same DrainOptions, without
\* SetupDrain: o.nodeInfo is the object the previous call left.
RunCordonOrUncordonAgain ==
    /\ pc = "idle"
    /\ last.valid
    /\ cmd' = "again"
    /\ \E desired \in BOOLEAN :
         \E replaceOK \in ReplaceResults(nodeInfo, desired) :
             RunCordonOrUncordon(nodeInfo, desired, replaceOK)
    /\ ResetLocals
    /\ UNCHANGED <<pc, remotePods, controllers, Force, GracePeriodSeconds>>

----------------------------------------------------------------------------
(* getPodsForDeletion *)

\* o.client.Pods(api.NamespaceAll).List(...): the pods of the node, or an error.
ListPods ==
    /\ pc = "list"
    /\ \E ok \in BOOLEAN :
         /\ calls' = Append(calls, Call("List", "Pod", nodeInfo.Name, <<>>, FALSE, <<>>, ok))
         /\ IF ok
            THEN /\ podList' = remotePods
                 /\ idx' = 1
                 /\ pc' = "loop"
                 /\ err' = err
            ELSE /\ podList' = podList
                 /\ idx' = idx
                 /\ pc' = "idle"
                 /\ err' = Error("list", <<>>)
    /\ UNCHANGED <<remoteUnschedulable, remotePods, controllers, nodeInfo, Force,
                   GracePeriodSeconds, cmd, didx, pods, unreplicatedPodNames,
                   deleteOptions, out, last>>

NoLookup == [err |-> "none", obj |-> "none"]

\* The decoded creator reference of a pod that has one.
CreatorOf(pod) == DecodeInto(pod.Annotations[CreatedByAnnotation])

\* Whether the loop body issues a Get for the pod.
NeedsLookup(pod) ==
    /\ ~IsMirrorPod(pod)
    /\ HasCreatorRef(pod)
    /\ ~CreatorOf(pod).err
    /\ IsRecognizedKind(CreatorOf(pod).Kind)

\* Faulty variant of Classify: a creator reference that does not decode is
\* taken for a missing controller.
ClassifyDecodeAsUnreplicated(pod, res) ==
    IF IsMirrorPod(pod) THEN "mirror"
    ELSE IF NeedsLookup(pod) /\ LookupSucceeded(res) THEN "replicated"
    ELSE "unreplicated"

\* Faulty variant of Classify: a Get that fails for another reason than
\* "not found" ends the classification with an error.
ClassifyLookupErrorAborts(pod, res) ==
    IF IsMirrorPod(pod) THEN "mirror"
    ELSE IF HasCreatorRef(pod) /\ CreatorOf(pod).err THEN "decodeError"
    ELSE IF NeedsLookup(pod) /\ res.err = "unavailable" THEN "decodeError"
    ELSE IF NeedsLookup(pod) /\ LookupSucceeded(res) THEN "replicated"
    ELSE "unreplicated"

\* The loop body's verdict on one pod, given the answer of its Get (if any).
Classify(pod, res) ==
    IF IsMirrorPod(pod) THEN "mirror"
    ELSE IF HasCreatorRef(pod) /\ CreatorOf(pod).err THEN "decodeError"
    ELSE IF NeedsLookup(pod) /\ LookupSucceeded(res) THEN "replicated"
    ELSE "unreplicated"

\* One iteration of the loop over podList.Items.
ClassifyPod ==
    /\ pc = "loop"
    /\ idx <= Len(podList)
    /\ LET pod == podList[idx]
       IN \E res \in (IF NeedsLookup(pod)
                      THEN GetResults(CreatorOf(pod).Kind, CreatorOf(pod).Name)
                      ELSE {NoLookup}) :
            LET verdict == Classify(pod, res)
                replicated == verdict = "replicated"
            IN /\ calls' = IF NeedsLookup(pod)
                           THEN Append(calls, Call("Get", CreatorOf(pod).Kind,
                                                   CreatorOf(pod).Name, pod.Name,
                                                   OwnerExists(pod), <<>>,
                                                   res.err = "nil"))
                           ELSE calls
               /\ IF verdict = "mirror"
                  THEN /\ idx' = idx + 1
                       /\ UNCHANGED <<pods, unreplicatedPodNames, err, pc>>
                  ELSE IF verdict = "decodeError"
                  THEN /\ err' = Error("decode", pod.Name)
                       /\ pc' = "idle"
                       /\ UNCHANGED <<pods, unreplicatedPodNames, idx>>
                  ELSE /\ pods' = IF AppendsToPods(replicated, Force)
                                  THEN Append(pods, pod) ELSE pods
                       /\ unreplicatedPodNames' =
                              IF AppendsToUnreplicated(replicated)
                              THEN Append(unreplicatedPodNames, pod.Name)
                              ELSE unreplicatedPodNames
                       /\ idx' = idx + 1
                       /\ UNCHANGED <<err, pc>>
    /\ UNCHANGED <<remoteUnschedulable, remotePods, controllers, nodeInfo, Force,
                   GracePeriodSeconds, cmd, podList, didx, deleteOptions, out, last>>

\* Faulty variant of Refuses: the test of o.Force inverted.
RefusesInverted(names, force) == Len(names) > 0 /\ force

\* if len(unreplicatedPodNames) > 0 { ... if !o.Force { return pods, fmt.Errorf(...) } }
Refuses(names, force) == Len(names) > 0 /\ ~force

\* After the loop: the refusal, or the warning and the return of pods to
\* RunDrain, which calls deletePods (deleteOptions is set up before its loop).
FinishClassify ==
    /\ pc = "loop"
    /\ idx > Len(podList)
    /\ LET joined == Join(unreplicatedPodNames)
       IN IF Refuses(unreplicatedPodNames, Force)
          THEN /\ err' = RefusingError(joined)
               /\ pc' = "idle"
               /\ UNCHANGED <<out, deleteOptions, didx>>
          ELSE /\ out' = IF Len(unreplicatedPodNames) > 0
                         THEN Append(out, Warning(joined)) ELSE out
               /\ deleteOptions' = DeleteOptionsFor(GracePeriodSeconds)
               /\ didx' = 1
               /\ pc' = "delete"
               /\ err' = err
    /\ UNCHANGED <<remoteUnschedulable, remotePods, controllers, nodeInfo, Force,
                   GracePeriodSeconds, cmd, podList, idx, pods, unreplicatedPodNames,
                   calls, last>>

----------------------------------------------------------------------------
(* deletePods and the end of RunDrain *)

\* Faulty variant of DeletePod: the loop takes the pods from the end of the
\* slice.
DeletePodReversed ==
    /\ pc = "delete"
    /\ didx <= Len(pods)
    /\ LET pod == pods[Len(pods) + 1 - didx]
       IN \E ok \in BOOLEAN :
            /\ calls' = Append(calls, Call("Delete", "Pod", pod.Name, pod.Name, FALSE,
                                           deleteOptions, ok))
            /\ IF ok
               THEN /\ remotePods' = RemovePod(remotePods, pod.Name)
                    /\ out' = Append(out, PrintSuccess("pod", pod.Name, "deleted"))
                    /\ didx' = didx + 1
                    /\ UNCHANGED <<err, pc>>
               ELSE /\ err' = Error("delete", pod.Name)
                    /\ pc' = "idle"
                    /\ UNCHANGED <<remotePods, out, didx>>
    /\ UNCHANGED <<remoteUnschedulable, controllers, nodeInfo, Force,
                   GracePeriodSeconds, cmd, podList, idx, pods, unreplicatedPodNames,
                   deleteOptions, last>>

\* Faulty variant of DeletePod: a failed delete is recorded and the loop goes on
\* with the next pod.
DeletePodContinues ==
    /\ pc = "delete"
    /\ didx <= Len(pods)
    /\ LET pod == pods[didx]
       IN \E ok \in BOOLEAN :
            /\ calls' = Append(calls, Call("Delete", "Pod", pod.Name, pod.Name, FALSE,
                                           deleteOptions, ok))
            /\ didx' = didx + 1
            /\ pc' = pc
            /\ IF ok
               THEN /\ remotePods' = RemovePod(remotePods, pod.Name)
                    /\ out' = Append(out, PrintSuccess("pod", pod.Name, "deleted"))
                    /\ err' = err
               ELSE /\ err' = Error("delete", pod.Name)
                    /\ UNCHANGED <<remotePods, out>>
    /\ UNCHANGED <<remoteUnschedulable, controllers, nodeInfo, Force,
                   GracePeriodSeconds, cmd, podList, idx, pods, unreplicatedPodNames,
                   deleteOptions, last>>

\* One iteration of the loop of deletePods.
DeletePod ==
    /\ pc = "delete"
    /\ didx <= Len(pods)
    /\ LET pod == pods[didx]
       IN \E ok \in BOOLEAN :
            /\ calls' = Append(calls, Call("Delete", "Pod", pod.Name, pod.Name, FALSE,
                                           deleteOptions, ok))
            /\ IF ok
               THEN /\ remotePods' = RemovePod(remotePods, pod.Name)
                    /\ out' = Append(out, PrintSuccess("pod", pod.Name, "deleted"))
                    /\ didx' = didx + 1
                    /\ UNCHANGED <<err, pc>>
               ELSE /\ err' = Error("delete", pod.Name)
                    /\ pc' = "idle"
                    /\ UNCHANGED <<remotePods, out, didx>>
    /\ UNCHANGED <<remoteUnschedulable, controllers, nodeInfo, Force,
                   GracePeriodSeconds, cmd, podList, idx, pods, unreplicatedPodNames,
                   deleteOptions, last>>

\* Faulty variant of Drained: RunDrain returns nil without the final line.
DrainedSilently ==
    /\ pc = "delete"
    /\ didx > Len(pods)
    /\ pc' = "idle"
    /\ UNCHANGED <<remoteUnschedulable, remotePods, controllers, nodeInfo, Force,
                   GracePeriodSeconds, cmd, podList, idx, didx, pods,
                   unreplicatedPodNames, deleteOptions, err, calls, last, out>>

\* deletePods returned nil: RunDrain prints "drained" and returns nil.
Drained ==
    /\ pc = "delete"
    /\ didx > Len(pods)
    /\ out' = Append(out, PrintSuccess("node", nodeInfo.Name, "drained"))
    /\ pc' = "idle"
    /\ UNCHANGED <<remoteUnschedulable, remotePods, controllers, nodeInfo, Force,
                   GracePeriodSeconds, cmd, podList, idx, didx, pods,
                   unreplicatedPodNames, deleteOptions, err, calls, last>>

----------------------------------------------------------------------------
(* Other actors of the control plane *)

DeleteController ==
    /\ \E c \in controllers \cap ReferencedBy(remotePods) : controllers' = controllers \ {c}
    /\ UNCHANGED <<remoteUnschedulable, remotePods, nodeInfo, Force,
                   GracePeriodSeconds, cmd, pc, podList, idx, didx, pods,
                   unreplicatedPodNames, deleteOptions, err, out, calls, last>>

CreateController ==
    /\ \E c \in ReferencedBy(remotePods) \ controllers : controllers' = controllers \cup {c}
    /\ UNCHANGED <<remoteUnschedulable, remotePods, nodeInfo, Force,
                   GracePeriodSeconds, cmd, pc, podList, idx, didx, pods,
                   unreplicatedPodNames, deleteOptions, err, out, calls, last>>

----------------------------------------------------------------------------

Next ==
    \/ NewCmdCordon
    \/ NewCmdUncordon
    \/ NewCmdDrain
    \/ RunCordonOrUncordonAgain
    \/ ListPods
    \/ ClassifyPod
    \/ FinishClassify
    \/ DeletePod
    \/ Drained
    \/ DeleteController
    \/ CreateController

Spec == Init /\ [][Next]_vars

----------------------------------------------------------------------------
(* What the properties below read off a state.  The pods are judged from   *)
(* their annotations and from the recorded answers of the Get calls, not   *)
(* from the verdicts of getPodsForDeletion.                                *)

HasMirrorMarker(pod) == ConfigMirrorAnnotationKey \in DOMAIN pod.Annotations

\* "absent", "malformed", "recognized" or "unrecognized"
OwnerRef(pod) ==
    IF CreatedByAnnotation \notin DOMAIN pod.Annotations THEN "absent"
    ELSE LET payload == pod.Annotations[CreatedByAnnotation]
         IN IF payload = Garbage THEN "malformed"
            ELSE IF payload[2] \in ControllerKinds THEN "recognized"
            ELSE "unrecognized"

GetCallsFor(pod) ==
    {i \in 1..Len(calls) : calls[i].op = "Get" /\ calls[i].pod = pod.Name}

Managed(pod) ==
    /\ ~HasMirrorMarker(pod)
    /\ OwnerRef(pod) = "recognized"
    /\ \E i \in 1..Len(calls) :
          calls[i].op = "Get" /\ calls[i].pod = pod.Name /\ calls[i].ok

Unmanaged(pod) ==
    /\ ~HasMirrorMarker(pod)
    /\ \/ OwnerRef(pod) \in {"absent", "unrecognized"}
       \/ /\ OwnerRef(pod) = "recognized"
          /\ \E i \in 1..Len(calls) :
                calls[i].op = "Get" /\ calls[i].pod = pod.Name /\ ~calls[i].ok

NonMirror(pod) == ~HasMirrorMarker(pod)

\* The pods the loop of getPodsForDeletion has gone through.
Examined == SubSeq(podList, 1, idx - 1)

IsDelete(c) == c.op = "Delete"

IsReplace(c) == c.op = "Replace"

IsWarning(m) == m.resource = "WARNING"

DeleteCalls == SelectSeq(calls, IsDelete)

ReplaceCalls == SelectSeq(calls, IsReplace)

NamesOf(ps) == [i \in 1..Len(ps) |-> ps[i].Name]

PodsOf(cs) == [i \in 1..Len(cs) |-> cs[i].pod]

Returned == pc = "idle" /\ cmd # "none"

\* The names separated by a comma and a blank.
RECURSIVE Listing(_)
Listing(names) ==
    IF Len(names) = 0 THEN <<>>
    ELSE IF Len(names) = 1 THEN names[1]
    ELSE Listing(SubSeq(names, 1, Len(names) - 1)) \o <<",", " ">> \o names[Len(names)]

----------------------------------------------------------------------------
\* C1: in a drain with force=false, once a non-mirror pod of the listing is
\* unmanaged (no creator, unrecognized kind, or failed lookup), drain issues no
\* Delete call at all, never enters deletePods, and returns an error.
C1_HardGate ==
    (/\ cmd = "drain"
     /\ ~Force
     /\ \E i \in 1..Len(Examined) : Unmanaged(Examined[i]))
    => /\ DeleteCalls = <<>>
       /\ pc # "delete"
       /\ pc = "idle" => err # NoError

\* A drain without force refused although one of the pods was managed.
C1_Witness ==
    /\ Returned
    /\ cmd = "drain"
    /\ ~Force
    /\ err.type = "unmanaged"
    /\ \E i \in 1..Len(Examined) : Unmanaged(Examined[i])
    /\ \E i \in 1..Len(Examined) : Managed(Examined[i])
    /\ Len(pods) > 0
    /\ DeleteCalls = <<>>

\* C2: a pod with the mirror marker, whatever its creator annotation and for
\* both values of Force, is neither in pods nor in unreplicatedPodNames, gets
\* no Get and no Delete call, is never the cause of a decode error, and stays
\* on the node.
C2_MirrorExcluded ==
    \A i \in 1..Len(podList) :
        HasMirrorMarker(podList[i]) =>
            LET n == podList[i].Name
            IN /\ \A j \in 1..Len(pods) : pods[j].Name # n
               /\ \A j \in 1..Len(unreplicatedPodNames) : unreplicatedPodNames[j] # n
               /\ \A j \in 1..Len(calls) :
                      calls[j].op \in {"Get", "Delete"} => calls[j].pod # n
               /\ err.type = "decode" => err.text # n
               /\ \E k \in 1..Len(remotePods) : remotePods[k].Name = n

\* A drain that went past a mirror pod with a malformed creator annotation and
\* deleted another pod.
C2_Witness ==
    /\ Returned
    /\ cmd = "drain"
    /\ err = NoError
    /\ \E i \in 1..Len(Examined) :
          /\ HasMirrorMarker(Examined[i])
          /\ OwnerRef(Examined[i]) = "malformed"
    /\ \E j \in 1..Len(calls) : calls[j].op = "Delete" /\ calls[j].ok

\* C3: every examined non-mirror pod whose creator decodes to a
\* ReplicationController, Job or DaemonSet gets a Get call, and when that Get
\* succeeded the pod is in pods and not in unreplicatedPodNames, with and
\* without Force.
C3_ManagedApproved ==
    cmd = "drain" =>
        \A i \in 1..Len(Examined) :
            LET pod == Examined[i]
            IN /\ (~HasMirrorMarker(pod) /\ OwnerRef(pod) = "recognized")
                      => GetCallsFor(pod) # {}
               /\ Managed(pod) =>
                      /\ \E j \in 1..Len(pods) : pods[j].Name = pod.Name
                      /\ \A j \in 1..Len(unreplicatedPodNames) :
                             unreplicatedPodNames[j] # pod.Name

\* A drain without force that deleted a pod created by an existing Job.
C3_Witness ==
    /\ Returned
    /\ cmd = "drain"
    /\ ~Force
    /\ err = NoError
    /\ \E i \in 1..Len(Examined) :
          /\ Managed(Examined[i])
          /\ Examined[i].Annotations[CreatedByAnnotation][2] = "Job"
          /\ \E j \in 1..Len(calls) :
                calls[j].op = "Delete" /\ calls[j].pod = Examined[i].Name

\* C4: without force, the refusal is raised only after the whole listing was
\* examined, and its text names exactly the unmanaged non-mirror pods, in
\* listing order, separated by ", "; and a full pass that met an unmanaged pod
\* ends in that refusal.
C4_RefusalListsUnmanaged ==
    /\ (Returned /\ cmd = "drain" /\ err.type = "unmanaged") =>
          /\ ~Force
          /\ idx = Len(podList) + 1
          /\ SelectSeq(podList, Unmanaged) # <<>>
          /\ err.text = <<RefusingPrefix>>
                        \o Listing(NamesOf(SelectSeq(podList, Unmanaged)))
                        \o <<RefusingSuffix>>
    /\ (/\ Returned
        /\ cmd = "drain"
        /\ ~Force
        /\ idx = Len(podList) + 1
        /\ SelectSeq(podList, Unmanaged) # <<>>) => err.type = "unmanaged"

\* A refusal that names two pods, so it was not raised at the first of them.
C4_Witness ==
    /\ Returned
    /\ cmd = "drain"
    /\ err.type = "unmanaged"
    /\ Len(SelectSeq(podList, Unmanaged)) >= 2

\* C5: with force, once getPodsForDeletion has returned without error, pods is
\* the listing without its mirror pods, in listing order; out holds one warning
\* naming the unmanaged pods when there is one and no warning otherwise; the
\* Delete calls go through pods in order, all of them unless one fails; and a
\* Node stays cordoned.
C5_ForcedDrain ==
    (cmd = "drain" /\ Force /\ didx > 0) =>
        /\ err.type \in {"nil", "delete"}
        /\ pods = SelectSeq(podList, NonMirror)
        /\ SelectSeq(out, IsWarning) =
              IF SelectSeq(podList, Unmanaged) # <<>>
              THEN <<Warning(Listing(NamesOf(SelectSeq(podList, Unmanaged))))>>
              ELSE <<>>
        /\ Len(DeleteCalls) <= Len(pods)
        /\ PodsOf(DeleteCalls) = SubSeq(NamesOf(pods), 1, Len(DeleteCalls))
        /\ (pc = "idle" /\ err = NoError) =>
              /\ Len(DeleteCalls) = Len(pods)
              /\ \A j \in 1..Len(DeleteCalls) : DeleteCalls[j].ok
              /\ \A j \in 1..Len(pods) :
                    \A k \in 1..Len(remotePods) : remotePods[k].Name # pods[j].Name
        /\ nodeInfo.Kind = "Node" =>
              /\ remoteUnschedulable
              /\ nodeInfo.Unschedulable
              /\ \A j \in 1..Len(ReplaceCalls) : ReplaceCalls[j].flag

\* A forced drain of a Node that deleted a managed and an unmanaged pod and
\* warned about the latter.
C5_Witness ==
    /\ Returned
    /\ cmd = "drain"
    /\ Force
    /\ err = NoError
    /\ nodeInfo.Kind = "Node"
    /\ Len(DeleteCalls) = 2
    /\ \E i \in 1..Len(podList) : Managed(podList[i])
    /\ \E i \in 1..Len(podList) : Unmanaged(podList[i])
    /\ SelectSeq(out, IsWarning) # <<>>

\* C6 (as claimed): whenever getPodsForDeletion returns the refusal or a decode
\* error, the pods it returns with it are empty.
C6_EmptyOnError ==
    (Returned /\ cmd = "drain" /\ err.type \in {"unmanaged", "decode"}) => pods = <<>>

\* The message RunCordonOrUncordon prints first.
FirstOutputIs(operation) ==
    /\ out # <<>>
    /\ out[1] = PrintSuccess("node", NodeName, operation)

\* A step that is a call of RunCordonOrUncordon: every entry point starts
\* from "idle", and the other actors leave it at "idle" but change controllers.
ToggleStep == pc = "idle" /\ controllers' = controllers

C7_NoWrite ==
    (last.valid /\ nodeInfo.Kind = "Node" /\ last.was = last.desired) =>
        /\ ReplaceCalls = <<>>
        /\ FirstOutputIs(IF last.desired THEN "already cordoned" ELSE "already uncordoned")
        /\ err.type # "replace"
        /\ remoteUnschedulable = nodeInfo.Unschedulable \/ cmd = "again"
        /\ cmd \in {"cordon", "uncordon", "again"} =>
              /\ calls = <<>>
              /\ Len(out) = 1
              /\ err = NoError

C7_SecondCall ==
    (/\ ToggleStep
     /\ last.valid
     /\ last'.desired = last.desired
     /\ nodeInfo.Kind = "Node"
     /\ cmd' = "again" \/ (cmd # "again" /\ ~last.failed)) => ReplaceCalls' = <<>>

\* C7: a call of RunCordonOrUncordon(desired) on a Node whose flag already is
\* desired issues no Replace, prints "already cordoned" / "already uncordoned"
\* and returns no error; and of two calls in a row with the same desired value
\* the second issues no Replace (when it reuses the handle of the first, or
\* when both are commands that resolve the node and the first did not fail),
\* so the two write at most once.
C7_Idempotent == []C7_NoWrite /\ [][C7_SecondCall]_vars

\* A second call on the same handle found the Node cordoned and wrote nothing.
C7_Witness ==
    /\ Returned
    /\ cmd = "again"
    /\ nodeInfo.Kind = "Node"
    /\ last.desired
    /\ last.was
    /\ calls = <<>>
    /\ FirstOutputIs("already cordoned")
    /\ err = NoError

\* C8: an invocation issues at most one Replace; it issues one exactly when the
\* handle is a Node whose flag differed from desired; that Replace is the first
\* call, carries the node object with the flag set to desired, and when it
\* succeeds the remote flag is desired and "cordoned" / "uncordoned" is printed.
C8_OneWrite ==
    last.valid =>
        /\ Len(ReplaceCalls) <= 1
        /\ Len(ReplaceCalls) = 1 <=> (nodeInfo.Kind = "Node" /\ last.was # last.desired)
        /\ \A j \in 1..Len(ReplaceCalls) :
              LET c == ReplaceCalls[j]
              IN /\ calls[1] = c
                 /\ c.kind = "Node"
                 /\ c.name = NodeName
                 /\ c.flag = last.desired
                 /\ c.ok => /\ remoteUnschedulable = last.desired
                            /\ FirstOutputIs(IF last.desired THEN "cordoned"
                                             ELSE "uncordoned")

\* An uncordon that wrote the node once and reported "uncordoned".
C8_Witness ==
    /\ Returned
    /\ cmd = "uncordon"
    /\ Len(ReplaceCalls) = 1
    /\ ReplaceCalls[1].ok
    /\ ~ReplaceCalls[1].flag
    /\ ~remoteUnschedulable
    /\ FirstOutputIs("uncordoned")

\* C9: after a failed Replace the invocation has returned that error, the
\* Replace is its only remote call (no second write, no List, Get or Delete)
\* and nothing was printed (no "cordoned", no "drained").
C9_ReplaceFailure ==
    (\E j \in 1..Len(calls) : calls[j].op = "Replace" /\ ~calls[j].ok) =>
        /\ pc = "idle"
        /\ err = Error("replace", <<>>)
        /\ Len(calls) = 1
        /\ out = <<>>
        /\ podList = <<>>
        /\ pods = <<>>

\* A drain of a node with pods whose cordon write failed.
C9_Witness ==
    /\ Returned
    /\ cmd = "drain"
    /\ Len(remotePods) > 0
    /\ calls # <<>>
    /\ calls[1].op = "Replace"
    /\ ~calls[1].ok
    /\ err.type = "replace"

\* C10: in a drain of a Node, a List, Get or Delete call is issued only after
\* the cordon step succeeded ("cordoned" or "already cordoned" printed first, a
\* Replace only as the first call, successful and with the flag true) and with
\* the flag true in the handle and in the control plane; and a drain that
\* fails later leaves the node cordoned.
C10_CordonFirst ==
    (cmd = "drain" /\ nodeInfo.Kind = "Node") =>
        /\ (\E j \in 1..Len(calls) : calls[j].op \in {"List", "Get", "Delete"}) =>
              /\ nodeInfo.Unschedulable
              /\ remoteUnschedulable
              /\ FirstOutputIs("cordoned") \/ FirstOutputIs("already cordoned")
              /\ \A k \in 1..Len(calls) :
                    calls[k].op = "Replace" => (k = 1 /\ calls[k].ok /\ calls[k].flag)
        /\ (pc = "idle" /\ err.type \in {"unmanaged", "decode", "list", "delete"}) =>
              /\ nodeInfo.Unschedulable
              /\ remoteUnschedulable

\* A drain that cordoned the Node with a Replace and then failed in a Delete.
C10_Witness ==
    /\ Returned
    /\ cmd = "drain"
    /\ nodeInfo.Kind = "Node"
    /\ err.type = "delete"
    /\ calls[1].op = "Replace"
    /\ calls[1].ok
    /\ remoteUnschedulable

\* A pod of the listing that the invocation decided to delete, judged from its
\* annotations and the lookups made for it.
Approved(pod) == Managed(pod) \/ (Force /\ Unmanaged(pod))

ApprovedNames == NamesOf(SelectSeq(podList, Approved))

OnNode(name) == \E i \in 1..Len(remotePods) : remotePods[i].Name = name

IsDrained(m) == m.operation = "drained"

IsDeleted(m) == m.operation = "deleted"

IsFailedDelete(c) == c.op = "Delete" /\ ~c.ok

\* The names that the "deleted" lines of the output report, in order.
DeletedNames == LET ms == SelectSeq(out, IsDeleted) IN [i \in 1..Len(ms) |-> ms[i].name]

\* C11: once the Delete call for the k-th approved pod has failed, the drain
\* has returned that error; the failed call is the last remote call and the
\* only Delete for that pod; the k-1 pods before it were deleted (one Delete
\* each, in order, reported "deleted", gone from the node); the pods after it
\* got no Delete call and are still on the node; there is no node write after
\* the cordon step, the node stays cordoned, and "drained" was not printed.
C11_DeleteAbort ==
    (cmd = "drain" /\ \E j \in 1..Len(calls) : IsFailedDelete(calls[j])) =>
        LET approved == ApprovedNames
            deletes == DeleteCalls
            k == Len(deletes)
        IN /\ pc = "idle"
           /\ IsFailedDelete(calls[Len(calls)])
           /\ \A j \in 1..(Len(calls) - 1) : ~IsFailedDelete(calls[j])
           /\ k <= Len(approved)
           /\ PodsOf(deletes) = SubSeq(approved, 1, k)
           /\ err = Error("delete", approved[k])
           /\ \A i \in 1..(k - 1) : ~OnNode(approved[i])
           /\ \A i \in k..Len(approved) : OnNode(approved[i])
           /\ DeletedNames = SubSeq(approved, 1, k - 1)
           /\ SelectSeq(out, IsDrained) = <<>>
           /\ \A j \in 2..Len(calls) : ~IsReplace(calls[j])
           /\ nodeInfo.Kind = "Node" => remoteUnschedulable /\ nodeInfo.Unschedulable

\* A drain whose first Delete succeeded and whose second Delete failed.
C11_Witness ==
    /\ Returned
    /\ cmd = "drain"
    /\ Len(DeleteCalls) = 2
    /\ DeleteCalls[1].ok
    /\ ~DeleteCalls[2].ok
    /\ ~OnNode(DeleteCalls[1].pod)
    /\ OnNode(DeleteCalls[2].pod)
    /\ err.type = "delete"

\* A drain whose first Delete failed while a second approved pod was waiting.
C11_WitnessFirst ==
    /\ Returned
    /\ cmd = "drain"
    /\ Len(DeleteCalls) = 1
    /\ ~DeleteCalls[1].ok
    /\ Len(ApprovedNames) = 2
    /\ OnNode(ApprovedNames[2])

Malformed(pod) == ~HasMirrorMarker(pod) /\ OwnerRef(pod) = "malformed"

MalformedAt == {i \in 1..Len(podList) : Malformed(podList[i])}

\* C12: in a drain whose listing holds a non-mirror pod with a creator
\* annotation that does not decode, whatever Force is and wherever the pod
\* sits, no Delete call is ever issued and no warning or "drained" line is
\* printed; the loop never goes past the first such pod; the pod is put
\* neither in pods nor in unreplicatedPodNames and gets no Get call; and the
\* drain returns the decode error of that pod.
C12_DecodeAbort ==
    (cmd = "drain" /\ MalformedAt # {}) =>
        LET f == CHOOSE i \in MalformedAt : \A j \in MalformedAt : i <= j
            n == podList[f].Name
        IN /\ DeleteCalls = <<>>
           /\ pc \in {"loop", "idle"}
           /\ idx <= f
           /\ pc = "idle" => (idx = f /\ err = Error("decode", n))
           /\ \A j \in 1..Len(pods) : pods[j].Name # n
           /\ \A j \in 1..Len(unreplicatedPodNames) : unreplicatedPodNames[j] # n
           /\ \A j \in 1..Len(calls) : calls[j].pod # n
           /\ SelectSeq(out, IsWarning) = <<>>
           /\ SelectSeq(out, IsDrained) = <<>>
           /\ Len(remotePods) = Len(podList)

\* A forced drain that approved an unmanaged pod and then returned the decode
\* error of the second pod of the listing.
C12_Witness ==
    /\ Returned
    /\ cmd = "drain"
    /\ Force
    /\ Len(podList) = 2
    /\ Unmanaged(podList[1])
    /\ Malformed(podList[2])
    /\ Len(pods) = 1
    /\ err = Error("decode", podList[2].Name)
    /\ DeleteCalls = <<>>

IsFailedGet(c) == c.op = "Get" /\ ~c.ok

InSeq(x, xs) == \E i \in 1..Len(xs) : xs[i] = x

\* C13: in a drain, a Get that failed for a pod (the controller missing, or
\* the call failing while the controller exists) is never the error of the
\* invocation: the loop goes on past the pod with no error set, the pod's name
\* is in unreplicatedPodNames; with Force the pod is in pods and a drain that
\* returns no error has deleted it; without Force the pod is not in pods, no
\* Delete is ever issued and the drain returns the refusal (or the decode
\* error of a later pod).
C13_LookupErrorUnmanaged ==
    cmd = "drain" =>
        /\ err.type \in {"nil", "replace", "list", "decode", "unmanaged", "delete"}
        /\ pc = "loop" => err = NoError
        /\ \A j \in 1..Len(calls) :
              IsFailedGet(calls[j]) =>
                  LET n == calls[j].pod
                  IN /\ \E i \in 1..(idx - 1) : podList[i].Name = n
                     /\ InSeq(n, unreplicatedPodNames)
                     /\ Force => /\ InSeq(n, NamesOf(pods))
                                 /\ (pc = "idle" /\ err = NoError) =>
                                        (~OnNode(n) /\ InSeq(n, DeletedNames))
                     /\ ~Force => /\ ~InSeq(n, NamesOf(pods))
                                  /\ DeleteCalls = <<>>
                                  /\ pc # "delete"
                                  /\ pc = "idle" => err.type \in {"unmanaged", "decode"}
                                  /\ OnNode(n)

\* A forced drain that deleted a pod whose controller existed when the Get for
\* it failed.
C13_Witness ==
    /\ Returned
    /\ cmd = "drain"
    /\ Force
    /\ err = NoError
    /\ \E j \in 1..Len(calls) :
          /\ IsFailedGet(calls[j])
          /\ calls[j].flag
          /\ ~OnNode(calls[j].pod)
          /\ InSeq(calls[j].pod, unreplicatedPodNames)

\* A drain without force refused because of a pod whose controller existed
\* when the Get for it failed.
C13_WitnessBlocked ==
    /\ Returned
    /\ cmd = "drain"
    /\ ~Force
    /\ err.type = "unmanaged"
    /\ \E j \in 1..Len(calls) : IsFailedGet(calls[j]) /\ calls[j].flag

\* A drain without force refused because of a pod whose controller was missing
\* when the Get for it was made.
C13_WitnessNotFound ==
    /\ Returned
    /\ cmd = "drain"
    /\ ~Force
    /\ err.type = "unmanaged"
    /\ Len(unreplicatedPodNames) = 1
    /\ \E j \in 1..Len(calls) : IsFailedGet(calls[j]) /\ ~calls[j].flag

\* C14: every Delete call of a drain carries the grace period
\* GracePeriodSeconds when that is zero or more, and none when it is negative;
\* so all Delete calls of the invocation carry the same option.
C14_GraceOverride ==
    cmd = "drain" =>
        /\ \A j \in 1..Len(DeleteCalls) :
              /\ GracePeriodSeconds >= 0 => DeleteCalls[j].grace = <<GracePeriodSeconds>>
              /\ GracePeriodSeconds < 0 => DeleteCalls[j].grace = <<>>
        /\ \A j, k \in 1..Len(DeleteCalls) : DeleteCalls[j].grace = DeleteCalls[k].grace

\* A drain with a grace period of zero that deleted two pods.
C14_Witness ==
    /\ Returned
    /\ cmd = "drain"
    /\ GracePeriodSeconds = 0
    /\ Len(DeleteCalls) = 2
    /\ DeleteCalls[1].grace = <<0>>
    /\ DeleteCalls[2].grace = <<0>>
    /\ DeleteCalls[2].ok

\* A drain with the default grace period whose Delete carried no override.
C14_WitnessDefault ==
    /\ Returned
    /\ cmd = "drain"
    /\ GracePeriodSeconds = -1
    /\ Len(DeleteCalls) > 0
    /\ DeleteCalls[1].grace = <<>>

\* C15 (state part): while the latest command is cordon or uncordon it has
\* returned, its only possible remote call is one Replace of the node, it has
\* no pod list and no approved pods, and it printed a single line at most,
\* none about a pod.
C15_NoPodCalls ==
    cmd \in {"cordon", "uncordon"} =>
        /\ pc = "idle"
        /\ Len(calls) <= 1
        /\ \A j \in 1..Len(calls) : IsReplace(calls[j]) /\ calls[j].kind = "Node"
        /\ podList = <<>>
        /\ pods = <<>>
        /\ Len(out) <= 1
        /\ \A j \in 1..Len(out) : ~IsDeleted(out[j]) /\ ~IsWarning(out[j]) /\ ~IsDrained(out[j])

\* C15 (step part): a step that leaves cordon or uncordon as the latest command
\* leaves the pods of the node as they were.
C15_PodsKept == cmd' \in {"cordon", "uncordon"} => remotePods' = remotePods

\* C15: cordon and uncordon issue no List, Get or Delete call and leave every
\* pod of the node unchanged.
C15_FlagOnly == []C15_NoPodCalls /\ [][C15_PodsKept]_vars

\* A cordon of a node with two pods that wrote the flag and left both pods.
C15_Witness ==
    /\ Returned
    /\ cmd = "cordon"
    /\ Len(remotePods) = 2
    /\ Len(calls) = 1
    /\ calls[1].ok
    /\ remoteUnschedulable
    /\ FirstOutputIs("cordoned")

\* C16: after RunCordonOrUncordon ran on a handle whose kind is not Node, no
\* Replace was issued, the flag is what it was (unset, in the handle and in the
\* control plane, whatever value was asked for), the first line printed is
\* "skipped", and no error came of it: cordon, uncordon and a repeated call
\* return nil with no remote call at all, and a drain goes on.
C16_Skipped ==
    (last.valid /\ nodeInfo.Kind # "Node") =>
        /\ ReplaceCalls = <<>>
        /\ ~nodeInfo.Unschedulable
        /\ ~remoteUnschedulable
        /\ out # <<>>
        /\ out[1] = [resource |-> nodeInfo.Resource, name |-> nodeInfo.Name,
                     operation |-> "skipped"]
        /\ err.type # "replace"
        /\ cmd \in {"cordon", "uncordon", "again"} =>
              (calls = <<>> /\ Len(out) = 1 /\ err = NoError)
        /\ cmd = "drain" => (pc = "list" \/ \E j \in 1..Len(calls) : calls[j].op = "List")

\* A cordon of an object that is no Node: "skipped", nothing written.
C16_Witness ==
    /\ Returned
    /\ cmd = "cordon"
    /\ nodeInfo.Kind = "Pod"
    /\ last.desired
    /\ ~nodeInfo.Unschedulable
    /\ calls = <<>>
    /\ out = <<[resource |-> "pod", name |-> NodeName, operation |-> "skipped"]>>
    /\ err = NoError

\* C17: in a drain the pods of the Delete calls, in the order of the calls,
\* are the first pods of the approved pods in the order of the listing; no pod
\* gets two Delete calls; every pod deleted is a pod of the listing; a Delete
\* is issued only after the one before it returned without error; the Delete
\* calls are the last calls of the invocation, each naming one pod; and a pod
\* of the listing that got no Delete call is still on the node.
C17_DeleteOrder ==
    cmd = "drain" =>
        LET approved == ApprovedNames
            deletes == DeleteCalls
            listed == NamesOf(podList)
            d == PodsOf(deletes)
        IN /\ d # <<>> => (Len(d) <= Len(approved) /\ d = SubSeq(approved, 1, Len(d)))
           /\ \A i, j \in 1..Len(d) : i # j => d[i] # d[j]
           /\ \A i \in 1..Len(d) : InSeq(d[i], listed)
           /\ \A i \in 1..(Len(d) - 1) : deletes[i].ok
           /\ \A i \in 1..Len(deletes) :
                 deletes[i].kind = "Pod" /\ deletes[i].name = d[i]
           /\ \A i \in 1..Len(calls) :
                 IsDelete(calls[i]) => \A j \in (i + 1)..Len(calls) : IsDelete(calls[j])
           /\ \A i \in 1..Len(podList) :
                 ~InSeq(podList[i].Name, d) => OnNode(podList[i].Name)

\* A drain that deleted the two pods of the listing, the first one first.
C17_Witness ==
    /\ Returned
    /\ cmd = "drain"
    /\ err = NoError
    /\ Len(podList) = 2
    /\ PodsOf(DeleteCalls) = NamesOf(podList)
    /\ DeletedNames = NamesOf(podList)
    /\ remotePods = <<>>

\* A drain that went past a mirror pod and deleted the pod listed after it.
C17_WitnessSkip ==
    /\ Returned
    /\ cmd = "drain"
    /\ Len(podList) = 2
    /\ HasMirrorMarker(podList[1])
    /\ PodsOf(DeleteCalls) = <<podList[2].Name>>
    /\ DeleteCalls[1].ok

DrainedAt == {i \in 1..Len(out) : IsDrained(out[i])}

\* A Replace, List or Delete call that failed (a failed Get is no failure of
\* the classification).
IsFailedStep(c) == c.op \in {"Replace", "List", "Delete"} /\ ~c.ok

\* C18: in a drain, "drained" is printed once at most, for the node, as the
\* last line, with the invocation returned without error, after a List that
\* succeeded, with no failed Replace, List or Delete, no pod that does not
\* decode, no refusal, and a successful Delete for every approved pod; and a
\* drain that has returned has no error exactly when "drained" was printed,
\* its error otherwise being that of the failed cordon, List, classification
\* or Delete.
C18_DrainedIffSuccess ==
    cmd = "drain" =>
        /\ DrainedAt \subseteq {Len(out)}
        /\ DrainedAt # {} =>
              /\ out[Len(out)] = [resource |-> "node", name |-> nodeInfo.Name,
                                  operation |-> "drained"]
              /\ pc = "idle"
              /\ err = NoError
              /\ \E j \in 1..Len(calls) : calls[j].op = "List" /\ calls[j].ok
              /\ \A j \in 1..Len(calls) : ~IsFailedStep(calls[j])
              /\ MalformedAt = {}
              /\ ~Force => \A i \in 1..Len(podList) : ~Unmanaged(podList[i])
              /\ PodsOf(DeleteCalls) = ApprovedNames
              /\ DeletedNames = ApprovedNames
              /\ \A i \in 1..Len(ApprovedNames) : ~OnNode(ApprovedNames[i])
        /\ pc = "idle" =>
              /\ err = NoError <=> DrainedAt # {}
              /\ err.type = "replace" <=> \E j \in 1..Len(calls) :
                                              IsReplace(calls[j]) /\ ~calls[j].ok
              /\ err.type = "list" <=> \E j \in 1..Len(calls) :
                                           calls[j].op = "List" /\ ~calls[j].ok
              /\ err.type = "delete" <=> \E j \in 1..Len(calls) : IsFailedDelete(calls[j])
              /\ err.type = "decode" <=> MalformedAt # {}
              /\ err.type = "unmanaged" <=>
                    (/\ MalformedAt = {}
                     /\ ~Force
                     /\ \E i \in 1..Len(podList) : Unmanaged(podList[i]))

\* A drain that cordoned the node, deleted two pods and printed "drained" last.
C18_Witness ==
    /\ Returned
    /\ cmd = "drain"
    /\ err = NoError
    /\ Len(out) = 4
    /\ IsDeleted(out[2])
    /\ IsDeleted(out[3])
    /\ IsDrained(out[4])
    /\ Len(calls) >= 3
    /\ IsDelete(calls[Len(calls)])

\* A drain of a node without pods: "drained" with no Delete call.
C18_WitnessEmpty ==
    /\ Returned
    /\ cmd = "drain"
    /\ podList = <<>>
    /\ DeleteCalls = <<>>
    /\ DrainedAt # {}

IsGet(c) == c.op = "Get"

IsList(c) == c.op = "List"

\* C19: with controllers created and deleted by others at any moment, a drain
\* issues one List at most, before every Get and Delete; every Get comes
\* before every Delete; no pod gets a second Get; a Get that succeeded found
\* the controller in place at that moment; and without Force every Delete is
\* for a pod with an earlier successful Get in the same invocation, whether
\* or not the controller is still there when the Delete is issued.
C19_DecideOnceThenDelete ==
    cmd = "drain" =>
        /\ Len(SelectSeq(calls, IsList)) <= 1
        /\ \A j \in 1..Len(calls) :
              IsList(calls[j]) =>
                  \A i \in 1..(j - 1) : ~IsGet(calls[i]) /\ ~IsDelete(calls[i])
        /\ \A j \in 1..Len(calls) :
              IsDelete(calls[j]) => \A i \in (j + 1)..Len(calls) : ~IsGet(calls[i])
        /\ \A i \in 1..Len(calls) :
              IsGet(calls[i]) =>
                  \A j \in (i + 1)..Len(calls) :
                      IsGet(calls[j]) => calls[i].pod # calls[j].pod
        /\ \A i \in 1..Len(calls) : (IsGet(calls[i]) /\ calls[i].ok) => calls[i].flag
        /\ ~Force =>
              \A j \in 1..Len(calls) :
                  IsDelete(calls[j]) =>
                      \E i \in 1..(j - 1) :
                          /\ IsGet(calls[i])
                          /\ calls[i].ok
                          /\ calls[i].pod = calls[j].pod

\* A drain without force whose last call deleted a pod after a successful Get
\* of its controller, the controller being gone and no pod left on the node
\* that names it: it was deleted between the Get and the Delete.
C19_Witness ==
    /\ Returned
    /\ cmd = "drain"
    /\ ~Force
    /\ err = NoError
    /\ \E i \in 1..Len(calls) :
          LET j == Len(calls)
          IN /\ IsGet(calls[i])
             /\ calls[i].ok
             /\ IsDelete(calls[j])
             /\ calls[j].ok
             /\ calls[j].pod = calls[i].pod
             /\ <<calls[i].kind, calls[i].name>> \notin controllers
             /\ <<calls[i].kind, calls[i].name>> \notin ReferencedBy(remotePods)

AlreadyLine(desired) ==
    [resource |-> "node", name |-> NodeName,
     operation |-> IF desired THEN "already cordoned" ELSE "already uncordoned"]

\* C20 (state part): after a call of RunCordonOrUncordon on a Node the flag of
\* the handle is the value asked for; and when the Replace of that call failed,
\* the object it sent already carried that value.
C20_HandleHoldsDesired ==
    (last.valid /\ nodeInfo.Kind = "Node") =>
        /\ nodeInfo.Unschedulable = last.desired
        /\ last.failed =>
              /\ calls # <<>>
              /\ IsReplace(calls[1])
              /\ ~calls[1].ok
              /\ calls[1].flag = last.desired
              /\ err = Error("replace", <<>>)

\* C20 (step part): a call whose Replace fails leaves the flag of the control
\* plane as it was and the flag of the handle at the value asked for; and a
\* second call on the same handle with the same value, after a call whose
\* Replace failed, issues no call, prints "already cordoned" or "already
\* uncordoned", returns nil, and leaves the control plane as it was.
C20_SecondCallAfterFailure ==
    /\ (ToggleStep /\ last'.failed) =>
          /\ remoteUnschedulable' = remoteUnschedulable
          /\ nodeInfo'.Unschedulable = last'.desired
    /\ (/\ ToggleStep
        /\ cmd' = "again"
        /\ last.failed
        /\ last'.desired = last.desired)
       => /\ calls' = <<>>
          /\ out' = <<AlreadyLine(last.desired)>>
          /\ err' = NoError
          /\ remoteUnschedulable' = remoteUnschedulable
          /\ nodeInfo'.Unschedulable = last.desired

\* C20: the flag of the handle is set before the Replace and stays set when
\* the Replace fails, so the next call with the same value on that handle
\* reports "already ..." without a write while the control plane is unchanged.
C20_StaleHandle == []C20_HandleHoldsDesired /\ [][C20_SecondCallAfterFailure]_vars

\* A repeated cordon on the handle of a failed cordon: "already cordoned",
\* no call, and the node still schedulable in the control plane.
C20_Witness ==
    /\ Returned
    /\ cmd = "again"
    /\ nodeInfo.Kind = "Node"
    /\ last.desired
    /\ calls = <<>>
    /\ out = <<AlreadyLine(TRUE)>>
    /\ err = NoError
    /\ nodeInfo.Unschedulable
    /\ ~remoteUnschedulable

====
